---------------------------- MODULE Spec2Model ----------------------------
(***************************************************************************)
(* Model of PlayAudioEngine (oboe/hello-oboe/src/main/cpp/                 *)
(* PlayAudioEngine.cpp): the lifecycle of the playback stream (open,       *)
(* configure, start, stop, close), the restart protocol guarded by         *)
(* mRestartingLock, the device-id setter, the destructor, and the two      *)
(* callbacks the audio layer invokes (onAudioReady, onError).              *)
(*                                                                         *)
(* Execution contexts:                                                     *)
(*   thread 0            the control context (constructor, setters,        *)
(*                       destructor);                                      *)
(*   threads 1..N        the std::threads onError spawns, each running     *)
(*                       restartStream once;                               *)
(*   the callback context, which runs onAudioReady and onError.            *)
(* Every function of the engine is cut into steps at its accesses to       *)
(* shared state (mPlayStream, mRestartingLock, the stream), so that every  *)
(* interleaving of the contexts is a behaviour of the model.               *)
(*                                                                         *)
(* The audio layer (OboeStream, OboeStreamBuilder) is not part of the      *)
(* engine's source. It is modelled by the Platform* operators, under the   *)
(* contract the engine relies on: openStream stores the new stream in the  *)
(* handle on success and nullptr on failure; close releases an open stream *)
(* whether or not it reports an error; data and error callbacks are        *)
(* delivered only for a started stream; a data callback does not overlap   *)
(* another one, nor a requestStop or close of its stream.                  *)
(* A read of a stream that was closed returns whatever the released       *)
(* object holds; a call through a null handle ends the process (crashed).  *)
(*                                                                         *)
(* Three specifications share the variables: Spec (the stream's            *)
(* lifecycle), SpecAudio (the callbacks and the restarts they cause) and   *)
(* SpecLatency (the latency estimator of a playing stream).                *)
(***************************************************************************)
EXTENDS Integers, Sequences, FiniteSets, TLC

\* ------------------------------------------------------------- bounds
\* Streams the audio layer hands out over one run (handles 1..MaxStreams).
MaxStreams == 2
\* Threads that onError can spawn over one run.
MaxRestartThreads == 2
\* setBufferSizeInBursts arguments range over -1..MaxBurstsArg.
MaxBurstsArg == 2
\* Largest buffer size in frames a stream grants (larger requests are clamped).
BufferCapacity == 3

\* ---------------------------------------------------------- constants
\* OBOE_UNSPECIFIED: "use the default playback device".
OBOE_UNSPECIFIED == 0
\* kBufferSizeAutomatic: the buffer-size selection that means "tune".
kBufferSizeAutomatic == 0
\* nullptr, as the value of the mPlayStream / mLatencyTuner pointers.
NULL == 0
\* Nanoseconds in a millisecond and in a second.
kNanosPerMillisecond == 1000000
OBOE_NANOS_PER_SECOND == 1000000000

MainThread == 0
Restarters == 1..MaxRestartThreads
Threads == {MainThread} \cup Restarters
\* The context the audio layer runs onAudioReady and onError on.
CallbackContext == MaxRestartThreads + 1
Handles == 1..MaxStreams
\* The audio devices: the built-in speaker and a pair of headphones.
Devices == {1, 2}
DeviceArgs == {OBOE_UNSPECIFIED} \cup Devices
BurstsArgs == (0 - 1)..MaxBurstsArg

VARIABLES
    \* ---- the audio layer
    sState,        \* handle -> "none" | "open" | "started" | "stopped" | "closed"
    sDev,          \* handle -> device id the stream runs on
    sBuf,          \* handle -> buffer size in frames
    \* ---- PlayAudioEngine's fields
    mPlayStream,
    mPlaybackDeviceId,
    mSampleRate,
    mFramesPerBurst,
    mLatencyTuner,                 \* the stream the tuner was created for
    mIsLatencyDetectionSupported,
    mBufferSizeSelection,
    mCurrentOutputLatencyMillis,   \* <<whole milliseconds, remaining nanoseconds>>
    mLatencySource,                \* the stream whose timestamps gave mCurrentOutputLatencyMillis
    mRestartingLock,               \* set of threads holding the mutex
    mStreamRestartThread,          \* last thread created by onError
    \* ---- the control context and the restart threads
    pc,            \* thread -> position
    frame,         \* thread -> the top-level operation it executes
    result,        \* thread -> the local `result` of the function it executes
    deviceId,      \* the argument of the setDeviceId call in progress
    \* ---- observation
    made,          \* the audio-layer calls and log reports of the last step
    notified,      \* open handles for which onError(DISCONNECTED) was delivered
    crashed        \* a null handle was dereferenced

platform == <<sState, sDev, sBuf>>
config == <<mPlaybackDeviceId, mBufferSizeSelection>>
latency == <<mCurrentOutputLatencyMillis, mLatencySource>>
streamFields == <<mSampleRate, mFramesPerBurst, mLatencyTuner, mIsLatencyDetectionSupported>>
fields == <<mPlayStream, config, streamFields, latency,
            mRestartingLock, mStreamRestartThread>>
locals == <<frame, result, deviceId>>
control == <<pc, locals>>
vars == <<platform, fields, control, made, notified, crashed>>

\* --------------------------------------------------------- audio layer
IsOpen(h) == h \in Handles /\ sState[h] \in {"open", "started", "stopped"}

OpenStreams == {h \in Handles : IsOpen(h)}

\* The handles not handed out yet; openStream takes the lowest.
FreshHandles == {h \in Handles : sState[h] = "none"}

NewHandle == CHOOSE h \in FreshHandles : \A g \in FreshHandles : h <= g

\* The device a stream opened for `requested` runs on: the requested one, or
\* any device when the request is OBOE_UNSPECIFIED.
GrantedDevices(requested) ==
    IF requested = OBOE_UNSPECIFIED THEN Devices ELSE {requested}

\* Frames per burst, sample rate and getTimestamp support of the streams on
\* device d: fixed by the hardware, and different from one device to the
\* other. Without support getTimestamp returns OBOE_ERROR_UNIMPLEMENTED.
DeviceBurst(d) == d

DeviceSampleRate(d) == IF d = 1 THEN 48000 ELSE 44100

DeviceHasTimestamps(d) == d = 1

\* What getDeviceId() returns: the device of an open stream; for a stream
\* that was closed, whatever the released object holds.
ReportedDeviceIds(h) == IF IsOpen(h) THEN {sDev[h]} ELSE DeviceArgs

\* OboeStream::setBufferSizeInFrames: the size the stream has afterwards.
\* A request above the capacity is clamped; a request below one frame is
\* rejected and the size stays.
PlatformSetBufferSize(h, requested) ==
    IF ~IsOpen(h) \/ requested < 1 THEN sBuf[h]
    ELSE IF requested > BufferCapacity THEN BufferCapacity
    ELSE requested

\* OboeStream::requestStop: the state of the stream afterwards, given the
\* result reported. Only a started stream that reports OK becomes stopped.
PlatformRequestStop(h, ok) ==
    IF sState[h] = "started" /\ ok THEN "stopped" ELSE sState[h]

\* OboeStream::close: an open stream is released whatever is reported.
PlatformClose(h, ok) ==
    IF IsOpen(h) THEN "closed" ELSE sState[h]

\* OboeStream::requestStart: an open or stopped stream that reports OK runs.
PlatformRequestStart(h, ok) ==
    IF sState[h] \in {"open", "stopped"} /\ ok THEN "started" ELSE sState[h]

\* The results requestStart can report for a stream in its state.
StartResults(h) == IF sState[h] \in {"open", "stopped"} THEN BOOLEAN ELSE {FALSE}

\* A call of the audio layer: who made it, on which handle, with which
\* argument and result, and whether the handle was an open stream.
Call(t, op, h, arg, ok) ==
    [by |-> t, op |-> op, h |-> h, arg |-> arg, ok |-> ok, open |-> IsOpen(h)]

\* A report to the log (LOGE, LOGW).
Report(t, what) ==
    [by |-> t, op |-> what, h |-> NULL, arg |-> 0, ok |-> FALSE, open |-> FALSE]

Made(op) == {i \in 1..Len(made) : made[i].op = op}

\* ------------------------------------------------------- arithmetic
\* C integer division, which truncates toward zero.
CDiv(a, b) == IF a >= 0 THEN a \div b ELSE 0 - ((0 - a) \div b)

\* (double) nanos / kNanosPerMillisecond, held as the whole milliseconds and
\* the nanoseconds that make the fraction (of the same sign).
MillisOfNanos(nanos) ==
    <<CDiv(nanos, kNanosPerMillisecond),
      nanos - CDiv(nanos, kNanosPerMillisecond) * kNanosPerMillisecond>>

\* ------------------------------------------------------------- Init
\* The engine before its constructor runs: no stream, the fields at the
\* values of their initializers.
Init ==
    /\ sState = [h \in Handles |-> "none"]
    /\ sDev = [h \in Handles |-> OBOE_UNSPECIFIED]
    /\ sBuf = [h \in Handles |-> 0]
    /\ mPlayStream = NULL
    /\ mPlaybackDeviceId = OBOE_UNSPECIFIED
    /\ mSampleRate = 0
    /\ mFramesPerBurst = 0
    /\ mLatencyTuner = NULL
    /\ mIsLatencyDetectionSupported = FALSE
    /\ mBufferSizeSelection = kBufferSizeAutomatic
    /\ mCurrentOutputLatencyMillis = MillisOfNanos(0)
    /\ mLatencySource = NULL
    /\ mRestartingLock = {}
    /\ mStreamRestartThread = NULL
    /\ pc = [t \in Threads |-> IF t = MainThread THEN "new" ELSE "idle"]
    /\ frame = [t \in Threads |-> "none"]
    /\ result = [t \in Threads |-> TRUE]
    /\ deviceId = OBOE_UNSPECIFIED
    /\ made = <<>>
    /\ notified = {}
    /\ crashed = FALSE

\* ------------------------------------------------- control-flow helpers
\* Positions: "ret" is the return of the top-level operation a thread
\* executes (constructor, setDeviceId, destructor, or the thread function).
\* Where restartStream returns to: setDeviceId, or the thread function;
\* both return in turn.
RestartReturn(t) == "ret"

\* Where closeOutputStream returns to: the destructor, or restartStream.
CloseReturn(t) == IF frame[t] = "dtor" THEN "ret" ELSE "cr_open"

\* A createPlaybackStream that leaves restartStream at once.
CreateReturnLeaves(t) == "ret"

\* Where createPlaybackStream returns to: the constructor, or restartStream.
CreateReturn(t) == IF frame[t] = "ctor" THEN "ret" ELSE "rs_unlock"

Goto(t, label) == pc' = [pc EXCEPT ![t] = label]

\* mPlayStream-> with mPlayStream == nullptr.
NullDereference ==
    /\ mPlayStream = NULL
    /\ crashed' = TRUE
    /\ made' = <<>>
    /\ UNCHANGED <<platform, fields, control, notified>>

\* The top-level operation of t returns; its locals end with it.
Return(t) ==
    /\ ~crashed
    /\ pc[t] = "ret"
    /\ pc' = [pc EXCEPT ![t] = IF t # MainThread THEN "done"
                                ELSE IF frame[t] = "dtor" THEN "destroyed"
                                ELSE "ready"]
    /\ frame' = [frame EXCEPT ![t] = "none"]
    /\ result' = [result EXCEPT ![t] = TRUE]
    /\ deviceId' = IF t = MainThread THEN OBOE_UNSPECIFIED ELSE deviceId
    /\ made' = <<>>
    /\ UNCHANGED <<platform, fields, notified, crashed>>

\* ------------------------------------------------------ constructor
\* PlayAudioEngine(): enters createPlaybackStream.
Construct ==
    /\ ~crashed
    /\ pc[MainThread] = "new"
    /\ pc' = [pc EXCEPT ![MainThread] = "cr_open"]
    /\ frame' = [frame EXCEPT ![MainThread] = "ctor"]
    /\ made' = <<>>
    /\ UNCHANGED <<platform, fields, result, deviceId, notified, crashed>>

\* ------------------------------------------- createPlaybackStream
\* builder.openStream(&mPlayStream) with the builder's device id set to
\* mPlaybackDeviceId, and the test of its result.
CreateOpen(t) ==
    /\ ~crashed
    /\ pc[t] = "cr_open"
    /\ \/ /\ FreshHandles # {}
          /\ \E d \in GrantedDevices(mPlaybackDeviceId) :
                /\ sState' = [sState EXCEPT ![NewHandle] = "open"]
                /\ sDev' = [sDev EXCEPT ![NewHandle] = d]
                /\ sBuf' = [sBuf EXCEPT ![NewHandle] = BufferCapacity]
          /\ mPlayStream' = NewHandle
          /\ result' = [result EXCEPT ![t] = TRUE]
          /\ made' = <<Call(t, "openStream", NewHandle, mPlaybackDeviceId, TRUE)>>
          /\ Goto(t, "cr_rate")
       \/ /\ mPlayStream' = NULL
          /\ result' = [result EXCEPT ![t] = FALSE]
          /\ made' = <<Call(t, "openStream", NULL, mPlaybackDeviceId, FALSE),
                       Report(t, "Failed to create stream")>>
          /\ Goto(t, CreateReturn(t))
          /\ UNCHANGED platform
    /\ UNCHANGED <<config, streamFields, latency, mRestartingLock,
                   mStreamRestartThread, frame, deviceId, notified, crashed>>

\* mSampleRate = getSampleRate(); mFramesPerBurst = getFramesPerBurst().
CreateRate(t) ==
    /\ ~crashed
    /\ pc[t] = "cr_rate"
    /\ \/ NullDereference
       \/ /\ mPlayStream # NULL
          /\ mSampleRate' = DeviceSampleRate(sDev[mPlayStream])
          /\ mFramesPerBurst' = DeviceBurst(sDev[mPlayStream])
          /\ made' = <<Call(t, "getSampleRate", mPlayStream, 0, TRUE),
                       Call(t, "getFramesPerBurst", mPlayStream, 0, TRUE)>>
          /\ Goto(t, "cr_buf")
          /\ UNCHANGED <<platform, mPlayStream, config, mLatencyTuner,
                         mIsLatencyDetectionSupported, latency, mRestartingLock,
                         mStreamRestartThread, locals, notified, crashed>>

\* mPlayStream->setBufferSizeInFrames(mFramesPerBurst).
CreateSetBuffer(t) ==
    /\ ~crashed
    /\ pc[t] = "cr_buf"
    /\ \/ NullDereference
       \/ /\ mPlayStream # NULL
          /\ sBuf' = [sBuf EXCEPT ![mPlayStream] =
                         PlatformSetBufferSize(mPlayStream, mFramesPerBurst)]
          /\ made' = <<Call(t, "setBufferSizeInFrames", mPlayStream, mFramesPerBurst, TRUE)>>
          /\ Goto(t, "cr_tuner")
          /\ UNCHANGED <<sState, sDev, fields, locals, notified, crashed>>

\* An engine that creates its tuner once and keeps it over restarts.
TunerKept(stream, tuner) == IF tuner # NULL THEN tuner ELSE stream

\* mLatencyTuner = new OboeLatencyTuner(*mPlayStream): the stream the new
\* tuner works on.
TunerStream(stream, tuner) == stream

\* prepareOscillators(); mLatencyTuner = new OboeLatencyTuner(*mPlayStream).
CreateTuner(t) ==
    /\ ~crashed
    /\ pc[t] = "cr_tuner"
    /\ \/ NullDereference
       \/ /\ mPlayStream # NULL
          /\ mLatencyTuner' = TunerStream(mPlayStream, mLatencyTuner)
          /\ made' = <<>>
          /\ Goto(t, "cr_start")
          /\ UNCHANGED <<platform, mPlayStream, config, mSampleRate, mFramesPerBurst,
                         mIsLatencyDetectionSupported, latency, mRestartingLock,
                         mStreamRestartThread, locals, notified, crashed>>

\* result = mPlayStream->requestStart(), and the report of its failure.
CreateStart(t) ==
    /\ ~crashed
    /\ pc[t] = "cr_start"
    /\ \/ NullDereference
       \/ /\ mPlayStream # NULL
          /\ \E ok \in StartResults(mPlayStream) :
                /\ sState' = [sState EXCEPT ![mPlayStream] =
                                  PlatformRequestStart(mPlayStream, ok)]
                /\ result' = [result EXCEPT ![t] = ok]
                /\ made' = <<Call(t, "requestStart", mPlayStream, 0, ok)>>
                           \o (IF ok THEN <<>> ELSE <<Report(t, "Error starting stream")>>)
          /\ Goto(t, "cr_probe")
          /\ UNCHANGED <<sDev, sBuf, fields, frame, deviceId, notified, crashed>>

\* mIsLatencyDetectionSupported =
\*     (mPlayStream->getTimestamp(...) != OBOE_ERROR_UNIMPLEMENTED).
CreateProbe(t) ==
    /\ ~crashed
    /\ pc[t] = "cr_probe"
    /\ \/ NullDereference
       \/ /\ mPlayStream # NULL
          /\ mIsLatencyDetectionSupported' = DeviceHasTimestamps(sDev[mPlayStream])
          /\ made' = <<Call(t, "getTimestamp", mPlayStream, 0, TRUE)>>
          /\ Goto(t, CreateReturn(t))
          /\ UNCHANGED <<platform, mPlayStream, config, mSampleRate, mFramesPerBurst,
                         mLatencyTuner, latency, mRestartingLock,
                         mStreamRestartThread, locals, notified, crashed>>

\* ---------------------------------------------- closeOutputStream
\* if (mPlayStream != nullptr)
CloseCheck(t) ==
    /\ ~crashed
    /\ pc[t] = "cl_check"
    /\ Goto(t, IF mPlayStream # NULL THEN "cl_stop" ELSE CloseReturn(t))
    /\ made' = <<>>
    /\ UNCHANGED <<platform, fields, locals, notified, crashed>>

\* A closeOutputStream that returns when requestStop fails.
AfterStopReturnOnError(t, ok) ==
    IF ok THEN "cl_close" ELSE IF frame[t] = "dtor" THEN "ret" ELSE "cr_open"

\* Where closeOutputStream goes on after requestStop returned: to close(),
\* whatever the result.
AfterStop(t, ok) == "cl_close"

\* result = mPlayStream->requestStop(), and the report of its failure.
CloseStop(t) ==
    /\ ~crashed
    /\ pc[t] = "cl_stop"
    /\ \/ NullDereference
       \/ /\ mPlayStream # NULL
          /\ \E ok \in BOOLEAN :
                /\ sState' = [sState EXCEPT ![mPlayStream] =
                                  PlatformRequestStop(mPlayStream, ok)]
                /\ result' = [result EXCEPT ![t] = ok]
                /\ made' = <<Call(t, "requestStop", mPlayStream, 0, ok)>>
                           \o (IF ok THEN <<>>
                               ELSE <<Report(t, "Error stopping output stream")>>)
                /\ Goto(t, AfterStop(t, ok))
          /\ UNCHANGED <<sDev, sBuf, fields, frame, deviceId, notified, crashed>>

\* result = mPlayStream->close(), and the report of its failure.
CloseClose(t) ==
    /\ ~crashed
    /\ pc[t] = "cl_close"
    /\ \/ NullDereference
       \/ /\ mPlayStream # NULL
          /\ \E ok \in BOOLEAN :
                /\ sState' = [sState EXCEPT ![mPlayStream] = PlatformClose(mPlayStream, ok)]
                /\ result' = [result EXCEPT ![t] = ok]
                /\ made' = <<Call(t, "close", mPlayStream, 0, ok)>>
                           \o (IF ok THEN <<>>
                               ELSE <<Report(t, "Error closing output stream")>>)
          /\ sDev' = [sDev EXCEPT ![mPlayStream] = OBOE_UNSPECIFIED]
          /\ sBuf' = [sBuf EXCEPT ![mPlayStream] = 0]
          /\ notified' = notified \ {mPlayStream}
          /\ Goto(t, CloseReturn(t))
          /\ UNCHANGED <<fields, frame, deviceId, crashed>>

\* --------------------------------------------------- restartStream
\* A try_lock that succeeds on a held mutex.
TryLockHeld(holders) == TRUE

\* mRestartingLock.try_lock() on a mutex held by `holders`.
TryLock(holders) == holders = {}

\* if (mRestartingLock.try_lock()) ... else LOGW(...)
RestartTryLock(t) ==
    /\ ~crashed
    /\ pc[t] = "rs_try"
    /\ IF TryLock(mRestartingLock)
       THEN /\ mRestartingLock' = mRestartingLock \cup {t}
            /\ made' = <<>>
            /\ Goto(t, "cl_check")
       ELSE /\ mRestartingLock' = mRestartingLock
            /\ made' = <<Report(t, "Restart already in progress")>>
            /\ Goto(t, RestartReturn(t))
    /\ UNCHANGED <<platform, mPlayStream, config, streamFields, latency,
                   mStreamRestartThread, locals, notified, crashed>>

\* mRestartingLock.unlock()
RestartUnlock(t) ==
    /\ ~crashed
    /\ pc[t] = "rs_unlock"
    /\ mRestartingLock' = mRestartingLock \ {t}
    /\ made' = <<>>
    /\ Goto(t, RestartReturn(t))
    /\ UNCHANGED <<platform, mPlayStream, config, streamFields, latency,
                   mStreamRestartThread, locals, notified, crashed>>

\* ----------------------------------------------------- setDeviceId
\* mPlaybackDeviceId = deviceId
SetDeviceId(id) ==
    /\ ~crashed
    /\ pc[MainThread] = "ready"
    /\ mPlaybackDeviceId' = id
    /\ deviceId' = id
    /\ pc' = [pc EXCEPT ![MainThread] = "sd_get"]
    /\ frame' = [frame EXCEPT ![MainThread] = "setDev"]
    /\ made' = <<>>
    /\ UNCHANGED <<platform, mPlayStream, mBufferSizeSelection, streamFields,
                   latency, mRestartingLock, mStreamRestartThread,
                   result, notified, crashed>>

\* A setDeviceId that restarts the stream whatever the device in use.
DeviceDiffersAlways(requested, current) == TRUE

\* if (deviceId != currentDeviceId)
DeviceDiffers(requested, current) == requested # current

\* currentDeviceId = mPlayStream->getDeviceId(); restartStream() if it differs.
SetDeviceIdCompare ==
    /\ ~crashed
    /\ pc[MainThread] = "sd_get"
    /\ \/ NullDereference
       \/ /\ mPlayStream # NULL
          /\ \E currentDeviceId \in ReportedDeviceIds(mPlayStream) :
                /\ made' = <<Call(MainThread, "getDeviceId", mPlayStream,
                                  currentDeviceId, TRUE)>>
                /\ Goto(MainThread, IF DeviceDiffers(deviceId, currentDeviceId)
                                    THEN "rs_try" ELSE "ret")
          /\ UNCHANGED <<platform, fields, locals, notified, crashed>>

\* --------------------------------------------- setBufferSizeInBursts
\* mBufferSizeSelection = numBursts
SetBufferSizeInBursts(numBursts) ==
    /\ ~crashed
    /\ pc[MainThread] = "ready"
    /\ mBufferSizeSelection' = numBursts
    /\ made' = <<>>
    /\ UNCHANGED <<platform, mPlayStream, mPlaybackDeviceId, streamFields,
                   latency, mRestartingLock, mStreamRestartThread,
                   control, notified, crashed>>

\* ------------------------------------------------------ destructor
\* ~PlayAudioEngine(): enters closeOutputStream.
Destroy ==
    /\ ~crashed
    /\ pc[MainThread] = "ready"
    /\ pc' = [pc EXCEPT ![MainThread] = "cl_check"]
    /\ frame' = [frame EXCEPT ![MainThread] = "dtor"]
    /\ made' = <<>>
    /\ UNCHANGED <<platform, fields, result, deviceId, notified, crashed>>

\* ---------------------------------------------------- onAudioReady
\* The sizes OboeLatencyTuner::tune() may request of the tuner's stream in
\* one call: none, or one burst more than the stream has.
TuneRequests(h) == {sBuf[h], sBuf[h] + DeviceBurst(sDev[h])}

\* if (mBufferSizeSelection == kBufferSizeAutomatic)
IsAutomatic(selection) == selection = kBufferSizeAutomatic

\* The buffer size a fixed selection asks for:
\* mBufferSizeSelection * mFramesPerBurst.
TargetBufferSize == mBufferSizeSelection * mFramesPerBurst

\* A handler that takes the size it asked for as the size it got.
ReReadAssumed(requested, granted) == requested

\* bufferSize = audioStream->getBufferSizeInFrames() after the request: what
\* the stream granted.
ReRead(requested, granted) == granted

\* ---- calculateCurrentOutputLatencyMillis
\* (frames * OBOE_NANOS_PER_SECOND) / sampleRate for frames >= 0, in int64.
\* The product does not fit TLC's 32-bit integers, so it is carried
\* as frames * (q * sampleRate + r) with q, r the quotient and remainder of
\* OBOE_NANOS_PER_SECOND by sampleRate: the quotient by sampleRate is
\* frames * q + (frames * r) / sampleRate, the same number.
NanosOfFrames(frames, sampleRate) ==
    frames * (OBOE_NANOS_PER_SECOND \div sampleRate)
        + (frames * (OBOE_NANOS_PER_SECOND % sampleRate)) \div sampleRate

\* An estimator that divides before it multiplies.
FrameTimeDeltaDivideFirst(frameIndexDelta, sampleRate) ==
    CDiv(frameIndexDelta, sampleRate) * OBOE_NANOS_PER_SECOND

\* frameTimeDelta = (frameIndexDelta * OBOE_NANOS_PER_SECOND) / mSampleRate
FrameTimeDelta(frameIndexDelta, sampleRate) ==
    IF frameIndexDelta >= 0
    THEN NanosOfFrames(frameIndexDelta, sampleRate)
    ELSE 0 - NanosOfFrames(0 - frameIndexDelta, sampleRate)

\* nextFramePresentationTime - nextFrameWriteTime, the number that is stored
\* divided by kNanosPerMillisecond; ts holds what getTimestamp,
\* getFramesWritten and AudioClock::getNanoseconds returned.
LatencyNanos(ts, sampleRate) ==
    LET frameIndexDelta == ts.framesWritten - ts.frameIndex
        nextFramePresentationTime ==
            ts.presentationTime + FrameTimeDelta(frameIndexDelta, sampleRate)
    IN  nextFramePresentationTime - ts.now

\* A calculation that stores its result whatever getTimestamp returned.
StoredLatencyAlways(ok, computed, cached) == computed

\* *latencyMillis is assigned only under if (result == OBOE_OK).
StoredLatency(ok, computed, cached) == IF ok THEN computed ELSE cached

NoTimestamp == [ok |-> FALSE, frameIndex |-> 0, presentationTime |-> 0,
                framesWritten |-> 0, now |-> 0]

\* What stream->getTimestamp may return to the handler: an error (always
\* possible, and the only outcome on a device without timestamps), or one of
\* `samples`.
TimestampResults(h, samples) ==
    {NoTimestamp} \cup (IF DeviceHasTimestamps(sDev[h])
                        THEN {[s EXCEPT !.ok = TRUE] : s \in samples}
                        ELSE {})

\* The audio-layer calls of calculateCurrentOutputLatencyMillis.
LatencyCalls(h, ts) ==
    IF ts.ok
    THEN <<Call(CallbackContext, "getTimestamp", h,
                <<ts.frameIndex, ts.presentationTime>>, TRUE),
           Call(CallbackContext, "getFramesWritten", h, ts.framesWritten, TRUE),
           Call(CallbackContext, "AudioClock::getNanoseconds", h, ts.now, TRUE)>>
    ELSE <<Call(CallbackContext, "getTimestamp", h, 0, FALSE),
           Report(CallbackContext, "Error calculating latency")>>

\* The audio layer invokes onAudioReady(audioStream, ...) for a started
\* stream; the invocations do not overlap, and the stream is not stopped or
\* closed during one. The handler:
\*   bufferSize = audioStream->getBufferSizeInFrames();
\*   if (mBufferSizeSelection == kBufferSizeAutomatic) mLatencyTuner->tune();
\*   else if (bufferSize != mBufferSizeSelection * mFramesPerBurst) {
\*       audioStream->setBufferSizeInFrames(...); bufferSize = (re-read) }
\*   Trace::beginSection(..., bufferSize); (rendering)
\*   if (mIsLatencyDetectionSupported) calculateCurrentOutputLatencyMillis(...)
\*       which writes the cached latency when getTimestamp returns OBOE_OK;
\*   return OBOE_CALLBACK_RESULT_CONTINUE.
\* `samples` are the timestamps the audio layer may answer with.
OnAudioReady(audioStream, samples) ==
    /\ ~crashed
    /\ sState[audioStream] = "started"
    /\ \E ts \in (IF mIsLatencyDetectionSupported
                  THEN TimestampResults(audioStream, samples) ELSE {NoTimestamp}) :
       LET read == <<Call(CallbackContext, "getBufferSizeInFrames", audioStream, 0, TRUE)>>
           traced(n) == <<Call(CallbackContext, "Trace::beginSection", audioStream, n, TRUE)>>
           latencyCalls == IF mIsLatencyDetectionSupported
                           THEN LatencyCalls(audioStream, ts) ELSE <<>>
           done == <<Call(CallbackContext, "return CONTINUE", audioStream, 0, TRUE)>>
       IN  /\ mCurrentOutputLatencyMillis' =
                 IF mIsLatencyDetectionSupported
                 THEN StoredLatency(ts.ok, MillisOfNanos(LatencyNanos(ts, mSampleRate)),
                                    mCurrentOutputLatencyMillis)
                 ELSE mCurrentOutputLatencyMillis
           /\ mLatencySource' = IF ts.ok THEN audioStream ELSE mLatencySource
           /\ IF IsAutomatic(mBufferSizeSelection)
              THEN /\ mLatencyTuner # NULL
                   /\ \E n \in TuneRequests(mLatencyTuner) :
                         /\ sBuf' = [sBuf EXCEPT ![mLatencyTuner] =
                                        PlatformSetBufferSize(mLatencyTuner, n)]
                         /\ made' = read
                              \o <<Call(CallbackContext, "tune", mLatencyTuner, 0, TRUE)>>
                              \o (IF n = sBuf[mLatencyTuner] THEN <<>>
                                  ELSE <<Call(CallbackContext, "setBufferSizeInFrames",
                                              mLatencyTuner, n, TRUE)>>)
                              \o traced(sBuf[audioStream]) \o latencyCalls \o done
              ELSE IF sBuf[audioStream] # TargetBufferSize
              THEN LET granted == PlatformSetBufferSize(audioStream, TargetBufferSize)
                   IN  /\ sBuf' = [sBuf EXCEPT ![audioStream] = granted]
                       /\ made' = read
                            \o <<Call(CallbackContext, "setBufferSizeInFrames",
                                      audioStream, TargetBufferSize, TRUE),
                                 Call(CallbackContext, "getBufferSizeInFrames",
                                      audioStream, 0, TRUE)>>
                            \o traced(ReRead(TargetBufferSize, granted))
                            \o latencyCalls \o done
              ELSE /\ sBuf' = sBuf
                   /\ made' = read \o traced(sBuf[audioStream]) \o latencyCalls \o done
    /\ UNCHANGED <<sState, sDev, mPlayStream, config, streamFields, mRestartingLock,
                   mStreamRestartThread, control, notified, crashed>>

\* --------------------------------------------------------- onError
IdleRestarters == {t \in Restarters : pc[t] = "idle"}

\* The thread object `new std::thread(restartStream)` creates.
NewThread == CHOOSE t \in IdleRestarters : \A u \in IdleRestarters : t <= u

\* A handler that restarts the stream on every error.
StartsRestartAlways(error) == TRUE

\* if (error == OBOE_ERROR_DISCONNECTED)
StartsRestart(error) == error = "ERROR_DISCONNECTED"

\* The audio layer reports `error` for started stream h. For
\* OBOE_ERROR_DISCONNECTED the handler creates a thread that runs
\* restartStream and returns; for any other error it does nothing.
OnError(h, error) ==
    /\ ~crashed
    /\ sState[h] = "started"
    /\ IF StartsRestart(error)
       THEN /\ IdleRestarters # {}
            /\ pc' = [pc EXCEPT ![NewThread] = "rs_try"]
            /\ frame' = [frame EXCEPT ![NewThread] = "thread"]
            /\ mStreamRestartThread' = NewThread
            /\ notified' = notified \cup {h}
       ELSE UNCHANGED <<pc, frame, mStreamRestartThread, notified>>
    /\ made' = <<Call(CallbackContext, "onError", h, error, TRUE)>>
    /\ UNCHANGED <<platform, mPlayStream, config, streamFields, latency,
                   mRestartingLock, result, deviceId, crashed>>

\* ------------------------------------------------------------ Next
ErrorCodes == {"ERROR_DISCONNECTED", "ERROR_INVALID_STATE"}

\* The steps of restartStream, closeOutputStream and createPlaybackStream,
\* by the control context and by the threads onError created.
ThreadStep ==
    \/ \E t \in Threads : RestartTryLock(t)
    \/ \E t \in Threads : CloseCheck(t)
    \/ \E t \in Threads : CloseStop(t)
    \/ \E t \in Threads : CloseClose(t)
    \/ \E t \in Threads : CreateOpen(t)
    \/ \E t \in Threads : CreateRate(t)
    \/ \E t \in Threads : CreateSetBuffer(t)
    \/ \E t \in Threads : CreateTuner(t)
    \/ \E t \in Threads : CreateStart(t)
    \/ \E t \in Threads : CreateProbe(t)
    \/ \E t \in Threads : RestartUnlock(t)
    \/ \E t \in Threads : Return(t)

\* The stream's lifecycle: construction, device changes, disconnects and the
\* restarts they cause, destruction. The data callback and the buffer-size
\* selection are left out: they write only sBuf, the cached latency and
\* mBufferSizeSelection, which no action of the lifecycle reads.
Next ==
    \/ Construct
    \/ \E id \in DeviceArgs : SetDeviceId(id)
    \/ SetDeviceIdCompare
    \/ Destroy
    \/ ThreadStep
    \/ \E h \in Handles, e \in ErrorCodes : OnError(h, e)

Spec == Init /\ [][Next]_vars

\* The timestamps of a stream in steady state: 480 frames written ahead of
\* the frame presented now.
SteadyTimestamps == {[ok |-> TRUE, frameIndex |-> 0, presentationTime |-> 0,
                      framesWritten |-> 480, now |-> 0]}

\* The callbacks: construction, the buffer-size selection, the data and error
\* callbacks and the restarts the latter cause, on the default device.
NextAudio ==
    \/ Construct
    \/ \E n \in BurstsArgs : SetBufferSizeInBursts(n)
    \/ ThreadStep
    \/ \E h \in Handles : OnAudioReady(h, SteadyTimestamps)
    \/ \E h \in Handles, e \in ErrorCodes : OnError(h, e)

SpecAudio == Init /\ [][NextAudio]_vars

\* The engine after its constructor has returned, playing on device 1.
InitPlaying ==
    /\ sState = [h \in Handles |-> IF h = 1 THEN "started" ELSE "none"]
    /\ sDev = [h \in Handles |-> IF h = 1 THEN 1 ELSE OBOE_UNSPECIFIED]
    /\ sBuf = [h \in Handles |-> IF h = 1 THEN DeviceBurst(1) ELSE 0]
    /\ mPlayStream = 1
    /\ mPlaybackDeviceId = OBOE_UNSPECIFIED
    /\ mSampleRate = DeviceSampleRate(1)
    /\ mFramesPerBurst = DeviceBurst(1)
    /\ mLatencyTuner = 1
    /\ mIsLatencyDetectionSupported = DeviceHasTimestamps(1)
    /\ mBufferSizeSelection = kBufferSizeAutomatic
    /\ mCurrentOutputLatencyMillis = MillisOfNanos(0)
    /\ mLatencySource = NULL
    /\ mRestartingLock = {}
    /\ mStreamRestartThread = NULL
    /\ pc = [t \in Threads |-> IF t = MainThread THEN "ready" ELSE "idle"]
    /\ frame = [t \in Threads |-> "none"]
    /\ result = [t \in Threads |-> TRUE]
    /\ deviceId = OBOE_UNSPECIFIED
    /\ made = <<>>
    /\ notified = {}
    /\ crashed = FALSE

\* Frame positions and times the audio layer and the clock may report.
FrameIndexes == {0, 480}
FramesWritten == {0, 480, 481, 487, 960}
PresentationTimes == {0, 5000000}
ClockTimes == {0, 10000000, 30000000}

LatencyTimestamps ==
    {[ok |-> TRUE, frameIndex |-> i, presentationTime |-> p, framesWritten |-> w,
      now |-> n] : i \in FrameIndexes, p \in PresentationTimes,
                   w \in FramesWritten, n \in ClockTimes}

\* The latency estimator at work: the data callback of a playing stream,
\* over the timestamps above.
NextLatency == \E h \in Handles : OnAudioReady(h, LatencyTimestamps)

SpecLatency == InitPlaying /\ [][NextLatency]_vars

\* ==================================================================
\* Properties
\* ==================================================================
\* t executes restartStream's guarded section (closeOutputStream followed by
\* createPlaybackStream, up to the unlock).
InRestart(t) ==
    /\ frame[t] \in {"setDev", "thread"}
    /\ pc[t] \in {"cl_check", "cl_stop", "cl_close", "cr_open", "cr_rate", "cr_buf",
                  "cr_tuner", "cr_start", "cr_probe", "rs_unlock"}

Restarting == {t \in Threads : InRestart(t)}

\* t takes a step of its own.
Steps(t) == pc'[t] # pc[t]

\* The step was made without any call of the audio layer that opens, stops
\* or closes a stream.
NoLifecycleCall ==
    \A i \in 1..Len(made') : made'[i].op \notin {"openStream", "requestStop", "close"}

\* C1. Restart mutual exclusion. At no time are two threads inside the
\* close+open section of restartStream, and the thread inside is the one
\* holding mRestartingLock. A restartStream that finds the lock free enters
\* the section holding it; one that finds it held reports the drop and
\* returns at once, with no stop, close or open, leaving the stream, the
\* handle and the lock as they were; a thread that has returned from
\* restartStream ends and never runs it again (no queue, no retry).
C1_TryLockStep ==
    \A t \in Threads :
        /\ (pc[t] = "rs_try" /\ Steps(t) /\ mRestartingLock = {}) =>
              /\ pc'[t] = "cl_check"
              /\ mRestartingLock' = {t}
        /\ (pc[t] = "rs_try" /\ Steps(t) /\ mRestartingLock # {}) =>
              /\ pc'[t] = "ret"
              /\ made' = <<Report(t, "Restart already in progress")>>
              /\ NoLifecycleCall
              /\ UNCHANGED <<platform, mPlayStream, mRestartingLock>>
        /\ (t # MainThread /\ pc[t] \in {"ret", "done"}) => pc'[t] \in {"ret", "done"}
        /\ (t = MainThread /\ pc[t] = "ret") => pc'[t] \in {"ret", "ready", "destroyed"}

C1_Exclusive ==
    /\ Cardinality(Restarting) <= 1
    /\ mRestartingLock = Restarting

C1_RestartExclusion == [](C1_Exclusive) /\ [][C1_TryLockStep]_vars

\* C1 witness: a restartStream was dropped while another thread is inside
\* the section.
C1_Witness ==
    \E t \in Threads, u \in Threads :
        /\ t # u
        /\ InRestart(u)
        /\ pc[t] = "ret"
        /\ made = <<Report(t, "Restart already in progress")>>

\* C2. At most one hardware stream is open, in every reachable state.
C2_AtMostOneOpen == Cardinality(OpenStreams) <= 1

\* C2 witness: a restart whose close() reported an error has released the
\* stream and goes on to open the next one.
C2_Witness ==
    \E t \in Threads :
        /\ InRestart(t)
        /\ pc[t] = "cr_open"
        /\ made = <<Call(t, "close", mPlayStream, 0, FALSE),
                    Report(t, "Error closing output stream")>>
        /\ sState[mPlayStream] = "closed"

\* No operation is in progress: every thread is outside the engine's
\* functions, so no restart is running or still to run.
Quiescent ==
    /\ ~crashed
    /\ \A t \in Threads : pc[t] \in {"ready", "destroyed", "idle", "done"}

\* C3. Device-loss recovery: no disconnect of the live stream is left
\* without a close+open cycle that follows it. Stated on the final result:
\* once every restart has finished, no started stream is one for which
\* onError(DISCONNECTED) was delivered and that was not closed since.
C3_DisconnectRecovered ==
    Quiescent => \A h \in Handles : ~(sState[h] = "started" /\ h \in notified)

\* C4. The stream is recreated whenever the device identifier changes. Stated
\* on the final result: once every restart has finished, the open stream
\* runs on the most recently requested device (when one was specified).
C4_LatestDeviceInUse ==
    (Quiescent /\ pc[MainThread] = "ready" /\ IsOpen(mPlayStream)
        /\ mPlaybackDeviceId # OBOE_UNSPECIFIED)
    => sDev[mPlayStream] = mPlaybackDeviceId

\* C5. setDeviceId(id) writes the requested-device field and nothing else;
\* then, with an open stream installed, it invokes restartStream if and only
\* if id differs from the device id the stream reports, and when they are
\* equal it returns with no stop, close or open request, the handle, the
\* RestartGuard and all stream state unchanged.
C5_SetDeviceIdStep ==
    /\ (pc[MainThread] = "ready" /\ pc'[MainThread] = "sd_get") =>
          /\ mPlaybackDeviceId' = deviceId'
          /\ made' = <<>>
          /\ UNCHANGED <<platform, mPlayStream, mRestartingLock, streamFields,
                         mBufferSizeSelection, latency>>
    /\ (pc[MainThread] = "sd_get" /\ Steps(MainThread) /\ IsOpen(mPlayStream)) =>
          /\ (pc'[MainThread] = "rs_try") <=> (deviceId # sDev[mPlayStream])
          /\ (pc'[MainThread] = "ret") <=> (deviceId = sDev[mPlayStream])
          /\ made' = <<Call(MainThread, "getDeviceId", mPlayStream,
                            sDev[mPlayStream], TRUE)>>
          /\ UNCHANGED <<platform, fields>>

C5_SetDeviceIdRestartsIffDifferent == [][C5_SetDeviceIdStep]_vars

\* C5 witness: setDeviceId was called with the device the live stream runs
\* on, and returns without a restart.
C5_Witness ==
    /\ pc[MainThread] = "ret"
    /\ frame[MainThread] = "setDev"
    /\ made = <<Call(MainThread, "getDeviceId", mPlayStream, sDev[mPlayStream], TRUE)>>
    /\ sState[mPlayStream] = "started"
    /\ deviceId = sDev[mPlayStream]
    /\ deviceId = mPlaybackDeviceId

\* t has just returned from a createPlaybackStream that failed (its `result`
\* is the error of openStream or of requestStart).
CreateFailed(t) ==
    /\ ~result[t]
    /\ \/ pc[t] = "rs_unlock"
       \/ pc[t] = "ret" /\ frame[t] = "ctor"

\* C6. When createPlaybackStream fails, at openStream or at requestStart, no
\* stream handle is left installed in the engine.
C6_NoHandleAfterFailure ==
    \A t \in Threads : CreateFailed(t) => mPlayStream = NULL

\* C7. Idempotent close: closeOutputStream issues no requestStop and no close
\* while the engine has no open stream, be it that none was ever opened or
\* that the stream was closed by an earlier closeOutputStream.
C7_NoRequestWithoutOpenStream ==
    \A i \in 1..Len(made) :
        made[i].op \in {"requestStop", "close"} => made[i].open

\* C8. closeOutputStream on an installed handle issues requestStop and then
\* close, whether or not requestStop returned an error; each error is
\* reported on its own, and neither ends the call early nor reaches the
\* caller: the destructor returns and restartStream goes on to
\* createPlaybackStream.
C8_CloseStep ==
    \A t \in Threads :
        /\ (pc[t] = "cl_check" /\ Steps(t) /\ mPlayStream # NULL) =>
              pc'[t] = "cl_stop"
        /\ (pc[t] = "cl_stop" /\ Steps(t) /\ mPlayStream # NULL) =>
              /\ pc'[t] = "cl_close"
              /\ made'[1].op = "requestStop" /\ made'[1].h = mPlayStream
              /\ made' = IF made'[1].ok THEN <<made'[1]>>
                         ELSE <<made'[1], Report(t, "Error stopping output stream")>>
        /\ (pc[t] = "cl_close" /\ Steps(t) /\ mPlayStream # NULL) =>
              /\ pc'[t] = IF frame[t] = "dtor" THEN "ret" ELSE "cr_open"
              /\ made'[1].op = "close" /\ made'[1].h = mPlayStream
              /\ made' = IF made'[1].ok THEN <<made'[1]>>
                         ELSE <<made'[1], Report(t, "Error closing output stream")>>
              /\ ~IsOpen(mPlayStream)'

C8_CloseGoesThroughBothSteps == [][C8_CloseStep]_vars

\* C8 witness: in a restart, requestStop has reported an error and
\* closeOutputStream stands before close().
C8_Witness ==
    \E t \in Threads :
        /\ InRestart(t)
        /\ pc[t] = "cl_close"
        /\ made = <<Call(t, "requestStop", mPlayStream, 0, FALSE),
                    Report(t, "Error stopping output stream")>>
        /\ ~result[t]

\* The step is an invocation of a callback, on the audio layer's context.
CallbackStep == made' # <<>> /\ made'[1].by = CallbackContext

\* C9. The real-time context never acquires or waits on mRestartingLock and
\* never stops, closes, opens or starts a stream: a callback leaves the lock,
\* the streams' states and the handle as they were and makes no such call;
\* onAudioReady moves no thread; onError(DISCONNECTED) hands restartStream to
\* one new thread, which stands before try_lock when onError returns; onError
\* with any other code starts nothing.
C9_CallbackStep ==
    CallbackStep =>
        /\ UNCHANGED <<mRestartingLock, sState, sDev, mPlayStream>>
        /\ \A i \in 1..Len(made') :
              /\ made'[i].by = CallbackContext
              /\ made'[i].op \notin {"openStream", "requestStart", "requestStop", "close"}
        /\ IF made'[1].op = "onError" /\ made'[1].arg = "ERROR_DISCONNECTED"
           THEN \E t \in Restarters :
                   /\ pc[t] = "idle"
                   /\ pc' = [pc EXCEPT ![t] = "rs_try"]
                   /\ frame' = [frame EXCEPT ![t] = "thread"]
           ELSE UNCHANGED <<pc, frame, mStreamRestartThread>>

C9_CallbacksStayOutOfRestart == [][C9_CallbackStep]_vars

\* C9 witness: onError(DISCONNECTED) has returned while another thread holds
\* mRestartingLock; the thread it created stands before try_lock.
C9_Witness ==
    /\ Len(made) = 1
    /\ made[1].by = CallbackContext
    /\ made[1].op = "onError"
    /\ made[1].arg = "ERROR_DISCONNECTED"
    /\ pc[mStreamRestartThread] = "rs_try"
    /\ mRestartingLock # {}
    /\ mStreamRestartThread \notin mRestartingLock

\* C10. Fixed buffer-size mode. An onAudioReady invocation that finds the
\* stream's buffer size different from mBufferSizeSelection * mFramesPerBurst
\* issues exactly one setBufferSizeInFrames, for that product, then reads the
\* size again, and the size it goes on with is the one the stream has (which
\* may be clamped), not the product; an invocation that finds the size equal
\* issues no setBufferSizeInFrames and the size stays.
C10_FixedModeStep ==
    (CallbackStep /\ made'[1].op = "getBufferSizeInFrames"
        /\ mBufferSizeSelection # kBufferSizeAutomatic) =>
        LET h == made'[1].h
            target == mBufferSizeSelection * mFramesPerBurst
            requests == {i \in 1..Len(made') : made'[i].op = "setBufferSizeInFrames"}
            traced == {made'[i].arg : i \in {k \in 1..Len(made') :
                                               made'[k].op = "Trace::beginSection"}}
        IN  IF sBuf[h] # target
            THEN /\ requests = {2}
                 /\ made'[2].h = h
                 /\ made'[2].arg = target
                 /\ made'[3].op = "getBufferSizeInFrames"
                 /\ made'[3].h = h
                 /\ traced = {sBuf'[h]}
                 /\ sBuf'[h] <= BufferCapacity
            ELSE /\ requests = {}
                 /\ sBuf' = sBuf
                 /\ traced = {sBuf[h]}

C10_FixedModeRequestsOnceAndReReads == [][C10_FixedModeStep]_vars

\* C10 witness: the callback asked for more frames than the stream can hold,
\* and goes on with the clamped size the stream reports.
C10_Witness ==
    /\ Len(made) >= 4
    /\ made[1].by = CallbackContext
    /\ made[2].op = "setBufferSizeInFrames"
    /\ made[2].arg > BufferCapacity
    /\ made[2].arg = TargetBufferSize
    /\ made[4].op = "Trace::beginSection"
    /\ made[4].arg = BufferCapacity
    /\ sBuf[made[2].h] = BufferCapacity

\* The last step was an invocation of onAudioReady.
AudioReadyDone ==
    /\ Len(made) >= 2
    /\ made[1].by = CallbackContext
    /\ made[1].op = "getBufferSizeInFrames"

\* C11. setBufferSizeInBursts(n) with any n <= 0 selects automatic tuning:
\* while the selection is n <= 0, every onAudioReady invocation runs the
\* tuner's tune step and issues no setBufferSizeInFrames of its own.
C11_NonPositiveIsAutomatic ==
    (AudioReadyDone /\ mBufferSizeSelection <= 0) =>
        /\ made[2].op = "tune"
        /\ \A i \in 1..Len(made) :
              made[i].op = "setBufferSizeInFrames" => made[i].arg > 0

\* The step is an invocation of onAudioReady.
AudioReadyStep == CallbackStep /\ made'[1].op = "getBufferSizeInFrames"

\* C12. Timestamp unavailable. An onAudioReady invocation in which
\* getTimestamp returns an error leaves the cached latency as it was, does not
\* call getFramesWritten, and still returns the continue directive (as every
\* invocation does); while timestamping is flagged unsupported, an invocation
\* makes no timestamp query and leaves the cached latency as it was.
C12_TimestampStep ==
    AudioReadyStep =>
        LET queries == {i \in 1..Len(made') : made'[i].op = "getTimestamp"}
            written == {i \in 1..Len(made') : made'[i].op = "getFramesWritten"}
        IN  /\ made'[Len(made')].op = "return CONTINUE"
            /\ (\E i \in queries : ~made'[i].ok) =>
                  /\ UNCHANGED latency
                  /\ written = {}
            /\ ~mIsLatencyDetectionSupported =>
                  /\ UNCHANGED latency
                  /\ queries = {}

C12_TimestampUnavailableSkipsUpdate == [][C12_TimestampStep]_vars

\* C12 witness: getTimestamp has failed in an invocation that followed a
\* successful one, and the latency cached by the earlier one is still there.
C12_Witness ==
    /\ AudioReadyDone
    /\ \E i \in 1..Len(made) : made[i].op = "getTimestamp" /\ ~made[i].ok
    /\ made[Len(made)].op = "return CONTINUE"
    /\ mCurrentOutputLatencyMillis # MillisOfNanos(0)
    /\ mLatencySource = made[1].h

\* double PlayAudioEngine::getCurrentOutputLatencyMillis()
getCurrentOutputLatencyMillis == mCurrentOutputLatencyMillis

\* C13. The cached latency is not persisted across restarts: while the
\* engine's stream is open, getCurrentOutputLatencyMillis returns either a
\* value computed from that stream's timestamps or the initial value the
\* restart has reset it to, never one computed from an earlier stream's.
C13_LatencyNotFromPreviousStream ==
    IsOpen(mPlayStream) =>
        \/ mLatencySource = mPlayStream
        \/ getCurrentOutputLatencyMillis = MillisOfNanos(0)

\* Hand-computed (frames * 1,000,000,000) div 48000.
NanosAt48000(frames) ==
    CASE frames = 0 -> 0
      [] frames = 1 -> 20833
      [] frames = 7 -> 145833
      [] frames = 480 -> 10000000
      [] frames = 481 -> 10020833
      [] frames = 487 -> 10145833
      [] frames = 960 -> 20000000

\* The position in made' of a getTimestamp that returned OBOE_OK in the
\* callback (0 if there is none).
TimestampAt ==
    LET at == {i \in 1..Len(made') : made'[i].op = "getTimestamp" /\ made'[i].ok}
    IN  IF at = {} THEN 0 ELSE CHOOSE i \in at : TRUE

\* C14. Latency arithmetic. With getTimestamp giving (presented frame index,
\* presented time), getFramesWritten >= that index and the clock giving now,
\* the calculation stores the latency
\*   presented time + ((frames written - index) * 1,000,000,000) div rate - now
\* nanoseconds (as milliseconds), from those inputs alone, negative or not;
\* at 48000 Hz against hand-computed quotients (480 frames: 10,000,000 ns).
C14_LatencyStep ==
    (AudioReadyStep /\ TimestampAt # 0 /\ mSampleRate = 48000) =>
        LET k == TimestampAt
            frameIndex == made'[k].arg[1]
            presentedTime == made'[k].arg[2]
            framesWritten == made'[k + 1].arg
            now == made'[k + 2].arg
            stored == mCurrentOutputLatencyMillis'
        IN  /\ made'[k + 1].op = "getFramesWritten"
            /\ made'[k + 2].op = "AudioClock::getNanoseconds"
            /\ framesWritten >= frameIndex =>
                  stored[1] * 1000000 + stored[2]
                      = presentedTime + NanosAt48000(framesWritten - frameIndex) - now

C14_LatencyArithmetic == [][C14_LatencyStep]_vars

\* C14 witness: 480 frames ahead at 48000 Hz, 10,000,000 ns of frames, and a
\* clock 30 ms past the presented time: the latency stored is -20 ms.
C14_Witness ==
    /\ AudioReadyDone
    /\ mSampleRate = 48000
    /\ \E k \in 1..Len(made) :
          /\ made[k].op = "getTimestamp" /\ made[k].ok
          /\ made[k].arg = <<0, 0>>
          /\ made[k + 1].arg = 480
          /\ made[k + 2].arg = 30000000
    /\ mCurrentOutputLatencyMillis = <<0 - 20, 0>>

\* The statements of restartStream's guarded section, in program order.
SectionOrder == <<"cl_check", "cl_stop", "cl_close", "cr_open", "cr_rate", "cr_buf",
                  "cr_tuner", "cr_start", "cr_probe", "rs_unlock">>

Rank(label) == CHOOSE i \in 1..Len(SectionOrder) : SectionOrder[i] = label

\* The next statement of t inside the guarded section.
SectionStep(t) ==
    \/ CloseCheck(t) \/ CloseStop(t) \/ CloseClose(t)
    \/ CreateOpen(t) \/ CreateRate(t) \/ CreateSetBuffer(t) \/ CreateTuner(t)
    \/ CreateStart(t) \/ CreateProbe(t)
    \/ RestartUnlock(t)

\* While the process runs, the guard is held only by a thread inside the
\* section, whose next statement can always be executed and does not fail
\* on a null handle.
C15_HeldOnlyInside ==
    ~crashed =>
        /\ \A t \in mRestartingLock :
              /\ InRestart(t)
              /\ ENABLED SectionStep(t)
              /\ pc[t] \notin {"cl_check", "cr_open", "rs_unlock"} => mPlayStream # NULL
        /\ (Restarting = {}) => (mRestartingLock = {})

\* Every step of the holder moves it forward in the section and keeps the
\* guard, until the unlock, which frees the guard; the holder never leaves
\* the section another way. A restart is dropped only while another thread
\* is inside the section.
C15_HolderStep ==
    \A t \in Threads :
        /\ (t \in mRestartingLock /\ Steps(t)) =>
              \/ /\ pc[t] # "rs_unlock"
                 /\ InRestart(t)'
                 /\ Rank(pc'[t]) > Rank(pc[t])
                 /\ t \in mRestartingLock'
              \/ /\ pc[t] = "rs_unlock"
                 /\ pc'[t] = "ret"
                 /\ mRestartingLock' = {}
        /\ (pc[t] = "rs_try" /\ pc'[t] = "ret") =>
              \E u \in Threads \ {t} : InRestart(u)

\* C15. Every restartStream that acquires mRestartingLock releases it, on
\* every path (close errors, failed open, failed start): the section is a
\* finite sequence of statements, each of which can be executed and leads to
\* the next, ending with the unlock; so with no restart executing the guard
\* is free, and no restart is dropped because of a guard left held.
C15_GuardAlwaysReleased == [](C15_HeldOnlyInside) /\ [][C15_HolderStep]_vars

\* C15 witness: a restart whose openStream failed has released the guard.
C15_Witness ==
    \E t \in Threads :
        /\ frame[t] \in {"setDev", "thread"}
        /\ pc[t] = "ret"
        /\ ~result[t]
        /\ mPlayStream = NULL
        /\ mRestartingLock = {}
        /\ made = <<>>

\* The statements of createPlaybackStream after a successful openStream.
CreateLabels == {"cr_rate", "cr_buf", "cr_tuner", "cr_start", "cr_probe"}

\* C16. Order of steps in a successful createPlaybackStream: when
\* requestStart has been issued, sample rate and burst size are recorded, the
\* buffer size is one burst, the timestamp-support probe is made and its
\* result stored, and nothing of createPlaybackStream is left to do.
C16_StartIsLastStep ==
    \A t \in Threads :
        (made # <<>> /\ made[1].op = "requestStart" /\ made[1].by = t /\ made[1].ok) =>
            /\ mSampleRate = DeviceSampleRate(sDev[mPlayStream])
            /\ mFramesPerBurst = DeviceBurst(sDev[mPlayStream])
            /\ sBuf[mPlayStream] = mFramesPerBurst
            /\ mIsLatencyDetectionSupported = DeviceHasTimestamps(sDev[mPlayStream])
            /\ pc[t] \notin CreateLabels

\* C17. No onAudioReady invocation runs while createPlaybackStream is still
\* executing: when one has run for handle h, no thread is inside
\* createPlaybackStream, and the fields the handler reads have the values of h.
C17_NoCallbackDuringCreate ==
    AudioReadyDone =>
        LET h == made[1].h
        IN  /\ \A t \in Threads : pc[t] \notin CreateLabels
            /\ mSampleRate = DeviceSampleRate(sDev[h])
            /\ mFramesPerBurst = DeviceBurst(sDev[h])
            /\ mLatencyTuner = h
            /\ mIsLatencyDetectionSupported = DeviceHasTimestamps(sDev[h])

\* C18. In every onAudioReady invocation, in automatic and in fixed mode,
\* every stream read and buffer-size change the handler causes, the tuner's
\* included, is applied to the handle passed to the invocation (the one the
\* first read is made on, which is open), and no other stream changes.
C18_CallbackStep ==
    AudioReadyStep =>
        LET audioStream == made'[1].h
        IN  /\ IsOpen(audioStream)
            /\ \A i \in 1..Len(made') : made'[i].h \in {audioStream, NULL}
            /\ \A i \in 1..Len(made') :
                  made'[i].h = NULL => made'[i].op = "Error calculating latency"
            /\ \A g \in Handles \ {audioStream} : sBuf'[g] = sBuf[g]
            /\ UNCHANGED <<sState, sDev>>

C18_CallbackTouchesOnlyItsHandle == [][C18_CallbackStep]_vars

\* C18 witness: after a restart, the tuner has grown the buffer of the new
\* stream in a callback of the new stream.
C18_Witness ==
    /\ AudioReadyDone
    /\ Len(made) >= 3
    /\ made[1].h # 1
    /\ made[2].op = "tune"
    /\ made[3].op = "setBufferSizeInFrames"
    /\ made[3].h = made[1].h
    /\ sState[1] = "closed"

\* C19. setDeviceId never uses a missing stream handle: it never
\* dereferences a null mPlayStream, and the handle whose device id it queries
\* is open.
C19_SetDeviceIdUsesNoMissingHandle ==
    /\ ~(crashed /\ pc[MainThread] = "sd_get")
    /\ \A i \in 1..Len(made) :
          made[i].op = "getDeviceId" => (made[i].h # NULL /\ made[i].open)

\* C20. No operation of the control context uses the engine's stream after a
\* restart on another thread has closed it: every getDeviceId, requestStop
\* and close the control context issues is on a stream that is open, so none
\* is closed twice.
C20_ControlUsesOnlyOpenStream ==
    \A i \in 1..Len(made) :
        (made[i].by = MainThread /\ made[i].op \in {"getDeviceId", "requestStop", "close"})
            => made[i].open

=============================================================================
